---- MODULE Spec2Model ----
(***************************************************************************)
(* Books-and-reviews REST resource (apis/models.py, apis/serializers.py,   *)
(* apis/views.py, apis/urls.py): the entity store, the two model           *)
(* serializers, and the request handlers of every routed endpoint.         *)
(*                                                                         *)
(* Text values are run-length encoded: a string is a sequence of runs      *)
(* [c |-> character, n |-> repeat count], so that a 256-character title is *)
(* one run.  Date texts are sequences of single characters, parsed and     *)
(* printed digit by digit.                                                 *)
(***************************************************************************)
EXTENDS Integers, Sequences, FiniteSets, TLC

VARIABLES
    books,      \* Book table: id -> [title, author, published_date]
    nextId,     \* Book table's auto-increment counter
    reviews,    \* Review table: id -> [book, reviewer, text, rating, created_at]
    nextRid,    \* Review table's auto-increment counter (also the creation clock)
    request,    \* the request handled last
    response,   \* the response returned last
    inflight    \* per worker: the request being handled step by step

vars == <<books, nextId, reviews, nextRid, request, response, inflight>>

(***************************************************************************)
(* Bounds of the model.                                                    *)
(***************************************************************************)
MaxId == 2
MaxRid == 2
NumWorkers == 2

(***************************************************************************)
(* Program constants.                                                      *)
(***************************************************************************)
title_max_length == 255
author_max_length == 255
reviewer_max_length == 100
rating_min == 1
rating_max == 5
HTTP_200_OK == 200
HTTP_201_CREATED == 201
HTTP_204_NO_CONTENT == 204
HTTP_400_BAD_REQUEST == 400
HTTP_404_NOT_FOUND == 404

(***************************************************************************)
(* Text: run-length encoded strings.                                       *)
(***************************************************************************)
Run(ch, k) == [c |-> ch, n |-> k]

RECURSIVE StrLen(_)
StrLen(s) == IF s = <<>> THEN 0 ELSE Head(s).n + StrLen(Tail(s))

RECURSIVE lstrip(_)
lstrip(s) == IF s # <<>> /\ Head(s).c = " " THEN lstrip(Tail(s)) ELSE s

RECURSIVE rstrip(_)
rstrip(s) ==
    IF s # <<>> /\ s[Len(s)].c = " " THEN rstrip(SubSeq(s, 1, Len(s) - 1)) ELSE s

\* str.strip()
strip(s) == rstrip(lstrip(s))

(***************************************************************************)
(* Dates: ISO-8601 text <-> calendar date [year, month, day].              *)
(***************************************************************************)
Digits == {"0", "1", "2", "3", "4", "5", "6", "7", "8", "9"}
DigitChar == <<"0", "1", "2", "3", "4", "5", "6", "7", "8", "9">>
DigitVal(ch) == CHOOSE v \in 0..9 : DigitChar[v + 1] = ch

IsDigits(s) == \A i \in 1..Len(s) : s[i] \in Digits

RECURSIVE ToInt(_)
ToInt(s) ==
    IF s = <<>> THEN 0
    ELSE 10 * ToInt(SubSeq(s, 1, Len(s) - 1)) + DigitVal(s[Len(s)])

IsLeap(y) == (y % 4 = 0 /\ y % 100 # 0) \/ y % 400 = 0

DaysInMonth(y, m) ==
    IF m = 2 THEN (IF IsLeap(y) THEN 29 ELSE 28)
    ELSE IF m \in {4, 6, 9, 11} THEN 30 ELSE 31

\* datetime.date(year, month, day) accepts the triple
ValidDate(y, m, d) == y >= 1 /\ m \in 1..12 /\ d >= 1 /\ d <= DaysInMonth(y, m)

\* position of the dash that ends the month, for texts \d{4}-\d{1,2}-\d{1,2}
MonthEnd(s) == {j \in {7, 8} :
                   /\ j < Len(s)
                   /\ s[j] = "-"
                   /\ IsDigits(SubSeq(s, 6, j - 1))
                   /\ Len(s) - j \in 1..2
                   /\ IsDigits(SubSeq(s, j + 1, Len(s)))}

date_re_match(s) ==
    /\ Len(s) >= 8
    /\ IsDigits(SubSeq(s, 1, 4))
    /\ s[5] = "-"
    /\ MonthEnd(s) # {}

NoDate == [year |-> 0, month |-> 0, day |-> 0]

\* DateField.to_internal_value: the parsed date, or NoDate when the text is rejected
parse_date(s) ==
    IF ~date_re_match(s) THEN NoDate
    ELSE LET j == CHOOSE k \in MonthEnd(s) : TRUE
             y == ToInt(SubSeq(s, 1, 4))
             m == ToInt(SubSeq(s, 6, j - 1))
             d == ToInt(SubSeq(s, j + 1, Len(s)))
         IN  IF ValidDate(y, m, d) THEN [year |-> y, month |-> m, day |-> d]
             ELSE NoDate

\* zero-padded decimal of n in w characters
RECURSIVE Pad(_, _)
Pad(n, w) == IF w = 0 THEN <<>> ELSE Append(Pad(n \div 10, w - 1), DigitChar[(n % 10) + 1])

\* DateField.to_representation: date.isoformat()
isoformat(d) == Pad(d.year, 4) \o <<"-">> \o Pad(d.month, 2) \o <<"-">> \o Pad(d.day, 2)

(***************************************************************************)
(* Field validation (serializers.py builds the fields from models.py).     *)
(* A field's outcome is [ok, code, value].                                 *)
(***************************************************************************)
Accept(v) == [ok |-> TRUE, code |-> "", value |-> v]
Reject(code) == [ok |-> FALSE, code |-> code, value |-> <<>>]

\* CharField(max_length): trims, rejects blank, then checks the length
CharField(text, max_length) ==
    IF strip(text) = <<>> THEN Reject("blank")
    ELSE IF StrLen(strip(text)) > max_length THEN Reject("max_length")
    ELSE Accept(strip(text))

\* TextField: a CharField with no length limit
TextField(text) == IF strip(text) = <<>> THEN Reject("blank") ELSE Accept(strip(text))

\* DateField: ISO-8601 text to a calendar date
DateField(text) ==
    IF parse_date(text) = NoDate THEN Reject("invalid") ELSE Accept(parse_date(text))

\* Faulty variant: the upper validator is missing
RatingField_no_max(r) == IF r < rating_min THEN Reject("min_value") ELSE Accept(r)

\* IntegerField with MinValueValidator(1), MaxValueValidator(5)
RatingField(r) ==
    IF r < rating_min THEN Reject("min_value")
    ELSE IF r > rating_max THEN Reject("max_value")
    ELSE Accept(r)

\* PrimaryKeyRelatedField(queryset=Book.objects.all())
BookRefField(pk) ==
    IF pk \in DOMAIN books THEN Accept(pk) ELSE Reject("does_not_exist")

(***************************************************************************)
(* BookSerializer: fields '__all__' = id (read-only), title, author,       *)
(* published_date.                                                         *)
(***************************************************************************)
BookFields == {"title", "author", "published_date"}

BookField(f, data) ==
    CASE f = "title" -> CharField(data[f], title_max_length)
      [] f = "author" -> CharField(data[f], author_max_length)
      [] f = "published_date" -> DateField(data[f])

\* serializer.errors: failing field -> message code
BookSerializer_errors(data, partial) ==
    LET bad == {f \in BookFields :
                   IF f \in DOMAIN data THEN ~BookField(f, data).ok ELSE ~partial}
    IN  [f \in bad |-> IF f \in DOMAIN data THEN BookField(f, data).code ELSE "required"]

BookSerializer_is_valid(data, partial) == DOMAIN BookSerializer_errors(data, partial) = {}

\* serializer.validated_data: the writable fields supplied, converted
BookSerializer_validated_data(data) ==
    [f \in (DOMAIN data) \cap BookFields |-> BookField(f, data).value]

\* serializer.data after a failed is_valid(): get_initial(), the writable fields as sent
BookSerializer_initial(data) == [f \in (DOMAIN data) \cap BookFields |-> data[f]]

\* serializer.data of an instance
BookSerializer_data(id, book) ==
    [id |-> id, title |-> book.title, author |-> book.author,
     published_date |-> isoformat(book.published_date)]

\* Faulty variant: only the title is written back; author and date keep their old values
BookSerializer_update_title(instance, validated) ==
    [f \in BookFields |->
        IF f = "title" /\ f \in DOMAIN validated THEN validated[f] ELSE instance[f]]

\* ModelSerializer.update: setattr for every validated field
BookSerializer_update(instance, validated) ==
    [f \in BookFields |-> IF f \in DOMAIN validated THEN validated[f] ELSE instance[f]]

(***************************************************************************)
(* ReviewSerializer: fields '__all__' = id, book, reviewer, text, rating,  *)
(* created_at (read-only, auto_now_add).                                   *)
(***************************************************************************)
ReviewFields == {"book", "reviewer", "text", "rating"}

ReviewField(f, data) ==
    CASE f = "book" -> BookRefField(data[f])
      [] f = "reviewer" -> CharField(data[f], reviewer_max_length)
      [] f = "text" -> TextField(data[f])
      [] f = "rating" -> RatingField(data[f])

ReviewSerializer_errors(data) ==
    LET bad == {f \in ReviewFields :
                   IF f \in DOMAIN data THEN ~ReviewField(f, data).ok ELSE TRUE}
    IN  [f \in bad |-> IF f \in DOMAIN data THEN ReviewField(f, data).code ELSE "required"]

ReviewSerializer_is_valid(data) == DOMAIN ReviewSerializer_errors(data) = {}

ReviewSerializer_validated_data(data) ==
    [f \in (DOMAIN data) \cap ReviewFields |-> ReviewField(f, data).value]

(***************************************************************************)
(* Entity store.                                                           *)
(***************************************************************************)
\* ids of a table in primary-key order: the order an unordered queryset's table scan
\* returns the rows in
RECURSIVE Ordered(_)
Ordered(S) ==
    IF S = {} THEN <<>>
    ELSE LET m == CHOOSE x \in S : \A y \in S : x <= y
         IN  <<m>> \o Ordered(S \ {m})

\* Faulty variant: the listing stops after the first book
BookList_first ==
    [i \in 1..(IF books = <<>> THEN 0 ELSE 1) |->
        BookSerializer_data(Ordered(DOMAIN books)[i], books[Ordered(DOMAIN books)[i]])]

\* Book.objects.all() through BookSerializer(many=True)
BookList == [i \in 1..Cardinality(DOMAIN books) |->
                BookSerializer_data(Ordered(DOMAIN books)[i], books[Ordered(DOMAIN books)[i]])]

\* Model.save() of an instance whose pk is set: UPDATE, and INSERT when no row matched
Model_save(tbl, pk, row) ==
    [k \in (DOMAIN tbl) \cup {pk} |-> IF k = pk THEN row ELSE tbl[k]]

\* Faulty variant: the new row goes under count + 1, an id a stored book may hold
Model_insert_count(tbl, id, row) ==
    [k \in (DOMAIN tbl) \cup {Cardinality(DOMAIN tbl) + 1} |->
        IF k = Cardinality(DOMAIN tbl) + 1 THEN row ELSE tbl[k]]

\* Manager.create(): INSERT under the id the table's counter hands out
Model_insert(tbl, id, row) == [k \in (DOMAIN tbl) \cup {id} |-> IF k = id THEN row ELSE tbl[k]]

\* Book row removed
Book_delete(tbl, pk) == [k \in (DOMAIN tbl) \ {pk} |-> tbl[k]]

\* Faulty variant: no cascade: the reviews of a deleted book stay
Review_keep(tbl, pk) == tbl

\* on_delete = CASCADE on Review.book: the reviews that survive deleting book pk
Review_cascade(tbl, pk) == [k \in {r \in DOMAIN tbl : tbl[r].book # pk} |-> tbl[k]]

(***************************************************************************)
(* Responses.  A body is [kind, content]:                                  *)
(*   "empty"   no body                 "detail"  {"detail": ...}           *)
(*   "entity"  one serialized book     "list"    a sequence of entities    *)
(*   "errors"  field -> message code   "initial" the fields as submitted   *)
(***************************************************************************)
Body(kind, content) == [kind |-> kind, content |-> content]
EmptyBody == Body("empty", <<>>)

\* what a handler returns: the response and the tables it leaves behind
Result(status, body, bks, nid, rvs) ==
    [status |-> status, body |-> body, books |-> bks, nextId |-> nid, reviews |-> rvs]

\* a response that leaves the store alone
Reply(status, body) == Result(status, body, books, nextId, reviews)

(***************************************************************************)
(* #1, #2: plain JSON views.                                               *)
(***************************************************************************)
\* Faulty variant: the demo serves the stored books
Pure_Json_stored(req) == Reply(HTTP_200_OK, Body("list", BookList))

Pure_Json(req) ==
    Reply(HTTP_200_OK,
          Body("list",
               << [id |-> 1, title |-> "To Kill a Mockingbird", author |-> "Harper Lee",
                   reviews |-> <<>>],
                  [id |-> 2, title |-> "1984", author |-> "George Orwell",
                   reviews |-> <<>>] >>))

Pure_Json_Model(req) ==
    Reply(HTTP_200_OK,
          Body("review",
               [i \in 1..Cardinality(DOMAIN reviews) |->
                   LET r == reviews[Ordered(DOMAIN reviews)[i]]
                   IN  [book |-> r.book, reviewer |-> r.reviewer, text |-> r.text,
                        rating |-> r.rating]]))

(***************************************************************************)
(* #3: function-based views.                                               *)
(***************************************************************************)
fbv_list(req) ==
    IF req.method = "GET" THEN Reply(HTTP_200_OK, Body("list", BookList))
    ELSE IF BookSerializer_is_valid(req.data, FALSE)
         THEN Result(HTTP_201_CREATED,
                     Body("entity",
                          BookSerializer_data(nextId, BookSerializer_validated_data(req.data))),
                     Model_insert(books, nextId, BookSerializer_validated_data(req.data)),
                     nextId + 1, reviews)
         ELSE Reply(HTTP_400_BAD_REQUEST, Body("initial", BookSerializer_initial(req.data)))

\* Faulty variant: a PUT to a missing id stores the body under that id
fbv_pk_missing_upsert(req) ==
    IF req.method = "PUT" /\ BookSerializer_is_valid(req.data, FALSE)
    THEN Result(HTTP_200_OK,
                Body("entity", BookSerializer_data(req.pk, BookSerializer_validated_data(req.data))),
                Model_save(books, req.pk, BookSerializer_validated_data(req.data)),
                nextId, reviews)
    ELSE Reply(HTTP_404_NOT_FOUND, EmptyBody)

\* except Book.DoesNotExist
fbv_pk_missing(req) == Reply(HTTP_404_NOT_FOUND, EmptyBody)

fbv_pk(req) ==
    IF req.pk \notin DOMAIN books THEN fbv_pk_missing(req)
    ELSE IF req.method = "GET"
         THEN Reply(HTTP_200_OK, Body("entity", BookSerializer_data(req.pk, books[req.pk])))
    ELSE IF req.method = "PUT"
         THEN IF BookSerializer_is_valid(req.data, FALSE)
              THEN LET row == BookSerializer_update(books[req.pk],
                                                    BookSerializer_validated_data(req.data))
                   IN  Result(HTTP_200_OK, Body("entity", BookSerializer_data(req.pk, row)),
                              Model_save(books, req.pk, row), nextId, reviews)
              ELSE Reply(HTTP_400_BAD_REQUEST,
                         Body("errors", BookSerializer_errors(req.data, FALSE)))
    ELSE Result(HTTP_204_NO_CONTENT, EmptyBody,
                Book_delete(books, req.pk), nextId, Review_cascade(reviews, req.pk))

(***************************************************************************)
(* #4: class-based views.                                                  *)
(***************************************************************************)
cbv_list_get(req) == Reply(HTTP_200_OK, Body("list", BookList))

cbv_list_post(req) ==
    IF BookSerializer_is_valid(req.data, FALSE)
    THEN Result(HTTP_201_CREATED,
                Body("entity",
                     BookSerializer_data(nextId, BookSerializer_validated_data(req.data))),
                Model_insert(books, nextId, BookSerializer_validated_data(req.data)),
                nextId + 1, reviews)
    ELSE Reply(HTTP_400_BAD_REQUEST, Body("initial", BookSerializer_initial(req.data)))

cbv_list(req) == IF req.method = "GET" THEN cbv_list_get(req) ELSE cbv_list_post(req)

\* get_object raises Http404, which the framework answers 404 {"detail": ...}
cbv_pk_found(pk) == pk \in DOMAIN books
Http404 == Reply(HTTP_404_NOT_FOUND, Body("detail", <<>>))

cbv_pk_get(req) ==
    IF ~cbv_pk_found(req.pk) THEN Http404
    ELSE Reply(HTTP_200_OK, Body("entity", BookSerializer_data(req.pk, books[req.pk])))

cbv_pk_put(req) ==
    IF ~cbv_pk_found(req.pk) THEN Http404
    ELSE IF BookSerializer_is_valid(req.data, FALSE)
         THEN LET row == BookSerializer_update(books[req.pk],
                                               BookSerializer_validated_data(req.data))
              IN  Result(HTTP_200_OK, Body("entity", BookSerializer_data(req.pk, row)),
                         Model_save(books, req.pk, row), nextId, reviews)
         ELSE Reply(HTTP_400_BAD_REQUEST,
                    Body("errors", BookSerializer_errors(req.data, FALSE)))

cbv_pk_delete(req) ==
    IF ~cbv_pk_found(req.pk) THEN Http404
    ELSE Result(HTTP_204_NO_CONTENT, EmptyBody,
                Book_delete(books, req.pk), nextId, Review_cascade(reviews, req.pk))

cbv_pk(req) ==
    CASE req.method = "GET" -> cbv_pk_get(req)
      [] req.method = "PUT" -> cbv_pk_put(req)
      [] req.method = "DELETE" -> cbv_pk_delete(req)

(***************************************************************************)
(* #5, #6, #7: the framework's generic behaviour over                      *)
(* queryset = Book.objects.all(), serializer_class = BookSerializer.       *)
(***************************************************************************)
\* ListModelMixin.list
GenericList(req) == Reply(HTTP_200_OK, Body("list", BookList))

\* CreateModelMixin.create: is_valid(raise_exception=True), save, 201
GenericCreate(req) ==
    IF BookSerializer_is_valid(req.data, FALSE)
    THEN Result(HTTP_201_CREATED,
                Body("entity",
                     BookSerializer_data(nextId, BookSerializer_validated_data(req.data))),
                Model_insert(books, nextId, BookSerializer_validated_data(req.data)),
                nextId + 1, reviews)
    ELSE Reply(HTTP_400_BAD_REQUEST, Body("errors", BookSerializer_errors(req.data, FALSE)))

\* RetrieveModelMixin.retrieve over get_object()
GenericRetrieve(req) ==
    IF req.pk \notin DOMAIN books THEN Http404
    ELSE Reply(HTTP_200_OK, Body("entity", BookSerializer_data(req.pk, books[req.pk])))

\* UpdateModelMixin.update (PUT) and partial_update (PATCH)
GenericUpdate(req, partial) ==
    IF req.pk \notin DOMAIN books THEN Http404
    ELSE IF BookSerializer_is_valid(req.data, partial)
         THEN LET row == BookSerializer_update(books[req.pk],
                                               BookSerializer_validated_data(req.data))
              IN  Result(HTTP_200_OK, Body("entity", BookSerializer_data(req.pk, row)),
                         Model_save(books, req.pk, row), nextId, reviews)
         ELSE Reply(HTTP_400_BAD_REQUEST,
                    Body("errors", BookSerializer_errors(req.data, partial)))

\* DestroyModelMixin.destroy
GenericDestroy(req) ==
    IF req.pk \notin DOMAIN books THEN Http404
    ELSE Result(HTTP_204_NO_CONTENT, EmptyBody,
                Book_delete(books, req.pk), nextId, Review_cascade(reviews, req.pk))

mixins_list(req) == IF req.method = "GET" THEN GenericList(req) ELSE GenericCreate(req)

mixins_pk(req) ==
    CASE req.method = "GET" -> GenericRetrieve(req)
      [] req.method = "PUT" -> GenericUpdate(req, FALSE)
      [] req.method = "DELETE" -> GenericDestroy(req)

generics_list(req) == IF req.method = "GET" THEN GenericList(req) ELSE GenericCreate(req)

generics_pk(req) ==
    CASE req.method = "GET" -> GenericRetrieve(req)
      [] req.method = "PUT" -> GenericUpdate(req, FALSE)
      [] req.method = "PATCH" -> GenericUpdate(req, TRUE)
      [] req.method = "DELETE" -> GenericDestroy(req)

\* ModelViewSet behind the router: books/ and books/<pk>/
viewsetsBook(req) ==
    CASE req.method = "GET" /\ req.pk = 0 -> GenericList(req)
      [] req.method = "POST" -> GenericCreate(req)
      [] req.method = "GET" /\ req.pk # 0 -> GenericRetrieve(req)
      [] req.method = "PUT" -> GenericUpdate(req, FALSE)
      [] req.method = "PATCH" -> GenericUpdate(req, TRUE)
      [] req.method = "DELETE" -> GenericDestroy(req)

(***************************************************************************)
(* Review creation: the collection-create contract applied to              *)
(* ReviewSerializer (no route of urls.py reaches it).                      *)
(***************************************************************************)
ReviewRow(validated, now) ==
    [book |-> validated.book, reviewer |-> validated.reviewer, text |-> validated.text,
     rating |-> validated.rating, created_at |-> now]

review_create(req) ==
    IF ReviewSerializer_is_valid(req.data)
    THEN [status |-> HTTP_201_CREATED,
          body |-> Body("entity", [id |-> nextRid] @@ ReviewSerializer_validated_data(req.data)),
          reviews |-> Model_insert(reviews, nextRid,
                                   ReviewRow(ReviewSerializer_validated_data(req.data), nextRid)),
          nextRid |-> nextRid + 1]
    ELSE [status |-> HTTP_400_BAD_REQUEST,
          body |-> Body("errors", ReviewSerializer_errors(req.data)),
          reviews |-> reviews, nextRid |-> nextRid]

(***************************************************************************)
(* Inputs: the request bodies and ids the clients send.                    *)
(***************************************************************************)
Date(y1, y2, y3, y4, rest) == <<y1, y2, y3, y4, "-">> \o rest

\* valid as sent
P_plain == [title |-> <<Run("a", 1)>>, author |-> <<Run("h", 1)>>,
            published_date |-> Date("1", "9", "6", "5", <<"0", "6", "-", "0", "1">>)]
\* valid, with surrounding blanks, an unpadded leap day and a read-only id
P_loose == [id |-> 7,
            title |-> <<Run(" ", 1), Run("b", 2), Run(" ", 1)>>,
            author |-> <<Run("o", 1), Run(" ", 2)>>,
            published_date |-> Date("2", "0", "2", "4", <<"2", "-", "2", "9">>)]
\* title missing
P_noTitle == [author |-> <<Run("h", 1)>>,
              published_date |-> Date("1", "9", "6", "5", <<"0", "6", "-", "0", "1">>)]
\* blank title and a day that does not exist
P_bad == [title |-> <<Run(" ", 2)>>, author |-> <<Run("h", 1)>>,
          published_date |-> Date("1", "9", "6", "5", <<"0", "2", "-", "3", "0">>)]
\* title one character over the limit
P_long == [title |-> <<Run("a", title_max_length + 1)>>, author |-> <<Run("h", 1)>>,
           published_date |-> Date("1", "9", "6", "5", <<"0", "6", "-", "0", "1">>)]
\* a partial body: the title alone
P_titleOnly == [title |-> <<Run(" ", 1), Run("b", 2), Run(" ", 1)>>]
P_blankOnly == [title |-> <<>>]

BookData == {P_plain, P_loose, P_noTitle, P_bad, P_long}
PatchData == {P_titleOnly, P_blankOnly}

\* ids a client may address: every id the table can hand out, and one it never does
Pks == 1..(MaxId + 1)

Ratings == {rating_min - 1, rating_min, rating_max, rating_max + 1}

ReviewData ==
    {[book |-> b, reviewer |-> <<Run("A", 1)>>, text |-> <<Run("G", 1)>>, rating |-> r] :
        b \in Pks, r \in Ratings}
    \cup {[book |-> 1, reviewer |-> <<Run(" ", 1)>>, text |-> <<Run("G", 1)>>,
           rating |-> rating_max],
          [book |-> 1, reviewer |-> <<Run("A", reviewer_max_length + 1)>>,
           text |-> <<Run("G", 1)>>, rating |-> rating_max],
          [book |-> 1, reviewer |-> <<Run("A", 1)>>, text |-> <<Run("G", 1)>>]}

Req(view, method, pk, data) == [view |-> view, method |-> method, pk |-> pk, data |-> data]

ListViews == {"fbv_list", "cbv_list", "mixins_list", "generics_list", "viewsetsBook"}
PkViews == {"fbv_pk", "cbv_pk", "mixins_pk", "generics_pk", "viewsetsBook"}
PatchViews == {"generics_pk", "viewsetsBook"}

\* urlpatterns: the requests the router hands to a view
Routed ==
    {Req("Pure_Json", "GET", 0, <<>>), Req("Pure_Json_Model", "GET", 0, <<>>)}
    \cup {Req(v, "GET", 0, <<>>) : v \in ListViews}
    \cup {Req(v, "POST", 0, d) : v \in ListViews, d \in BookData}
    \cup {Req(v, m, pk, <<>>) : v \in PkViews, m \in {"GET", "DELETE"}, pk \in Pks}
    \cup {Req(v, "PUT", pk, d) : v \in PkViews, pk \in Pks, d \in BookData}
    \cup {Req(v, "PATCH", pk, d) : v \in PatchViews, pk \in Pks, d \in PatchData}

NoRequest == Req("none", "", 0, <<>>)
NoResponse == [status |-> 0, body |-> EmptyBody]

Idle == request.view = "none"
Pending(view) == request.view = view /\ response.status = 0
Answered == response.status # 0

(***************************************************************************)
(* Sequential service: one request at a time, from the router to the view  *)
(* and back.                                                               *)
(***************************************************************************)
Init ==
    /\ books = <<>>
    /\ nextId = 1
    /\ reviews = <<>>
    /\ nextRid = 1
    /\ request = NoRequest
    /\ response = NoResponse
    /\ inflight = <<>>

\* the router resolves a URL to a view
Dispatch ==
    /\ Idle
    /\ \E req \in Routed :
          /\ req.method = "POST" => nextId <= MaxId
          /\ request' = req
    /\ UNCHANGED <<books, nextId, reviews, nextRid, response, inflight>>

\* a Review submitted for creation
DispatchReview ==
    /\ Idle
    /\ nextRid <= MaxRid
    /\ \E d \in ReviewData : request' = Req("review_create", "POST", 0, d)
    /\ UNCHANGED <<books, nextId, reviews, nextRid, response, inflight>>

\* a view ran to its return
Return(r) ==
    /\ response' = [status |-> r.status, body |-> r.body]
    /\ books' = r.books
    /\ nextId' = r.nextId
    /\ reviews' = r.reviews
    /\ UNCHANGED <<nextRid, request, inflight>>

Do_Pure_Json == Pending("Pure_Json") /\ Return(Pure_Json(request))
Do_Pure_Json_Model == Pending("Pure_Json_Model") /\ Return(Pure_Json_Model(request))
Do_fbv_list == Pending("fbv_list") /\ Return(fbv_list(request))
Do_fbv_pk == Pending("fbv_pk") /\ Return(fbv_pk(request))
Do_cbv_list == Pending("cbv_list") /\ Return(cbv_list(request))
Do_cbv_pk == Pending("cbv_pk") /\ Return(cbv_pk(request))
Do_mixins_list == Pending("mixins_list") /\ Return(mixins_list(request))
Do_mixins_pk == Pending("mixins_pk") /\ Return(mixins_pk(request))
Do_generics_list == Pending("generics_list") /\ Return(generics_list(request))
Do_generics_pk == Pending("generics_pk") /\ Return(generics_pk(request))
Do_viewsetsBook == Pending("viewsetsBook") /\ Return(viewsetsBook(request))

Do_review_create ==
    /\ Pending("review_create")
    /\ response' = [status |-> review_create(request).status,
                    body |-> review_create(request).body]
    /\ reviews' = review_create(request).reviews
    /\ nextRid' = review_create(request).nextRid
    /\ UNCHANGED <<books, nextId, request, inflight>>

\* the response is sent; the service takes the next request
Deliver ==
    /\ Answered
    /\ request' = NoRequest
    /\ response' = NoResponse
    /\ UNCHANGED <<books, nextId, reviews, nextRid, inflight>>

Next ==
    \/ Dispatch
    \/ DispatchReview
    \/ Do_Pure_Json
    \/ Do_Pure_Json_Model
    \/ Do_fbv_list
    \/ Do_fbv_pk
    \/ Do_cbv_list
    \/ Do_cbv_pk
    \/ Do_mixins_list
    \/ Do_mixins_pk
    \/ Do_generics_list
    \/ Do_generics_pk
    \/ Do_viewsetsBook
    \/ Do_review_create
    \/ Deliver

Spec == Init /\ [][Next]_vars

(***************************************************************************)
(* Concurrent service: each worker runs fbv_pk / cbv_pk (or the create of  *)
(* fbv_list / cbv_list) statement by statement.  The store is atomic per   *)
(* single read or write; nothing groups a view's fetch with its write.     *)
(***************************************************************************)
Workers == 1..NumWorkers

ConcViews == {"fbv_pk", "cbv_pk"}
ConcData == {P_plain, P_loose, P_bad}

ConcRequests ==
    {Req(v, m, pk, <<>>) : v \in ConcViews, m \in {"GET", "DELETE"}, pk \in 1..MaxId}
    \cup {Req(v, "PUT", pk, d) : v \in ConcViews, pk \in 1..MaxId, d \in ConcData}

IdleWorker == [pc |-> "idle", req |-> NoRequest, instance |-> <<>>,
               status |-> 0, body |-> EmptyBody]

Step(w, pc, instance, status, body) ==
    inflight' = [inflight EXCEPT ![w] = [pc |-> pc, req |-> inflight[w].req,
                                         instance |-> instance,
                                         status |-> status, body |-> body]]

\* the table a populated service starts from: P_plain and P_loose created, one review each
SeedBooks == [k \in 1..MaxId |->
                 BookSerializer_validated_data(IF k = 1 THEN P_plain ELSE P_loose)]
SeedReviews == [k \in 1..MaxId |->
                   [book |-> k, reviewer |-> <<Run("A", 1)>>, text |-> <<Run("G", 1)>>,
                    rating |-> rating_max, created_at |-> k]]

ConcInit ==
    /\ books = SeedBooks
    /\ nextId = MaxId + 1
    /\ reviews = SeedReviews
    /\ nextRid = MaxId + 1
    /\ request = NoRequest
    /\ response = NoResponse
    /\ inflight = [w \in Workers |-> IdleWorker]

\* the router hands a request to an idle worker
Accept_pk(w) ==
    /\ inflight[w].pc = "idle"
    /\ \E req \in ConcRequests :
          inflight' = [inflight EXCEPT ![w] = [IdleWorker EXCEPT !.pc = "get", !.req = req]]
    /\ UNCHANGED <<books, nextId, reviews, nextRid, request, response>>

\* book = Book.objects.get(pk=pk), or the 404
Get(w) ==
    /\ inflight[w].pc = "get"
    /\ IF inflight[w].req.pk \in DOMAIN books
       THEN Step(w, "found", books[inflight[w].req.pk], 0, EmptyBody)
       ELSE Step(w, "done", <<>>, HTTP_404_NOT_FOUND,
                 IF inflight[w].req.view = "fbv_pk" THEN EmptyBody ELSE Body("detail", <<>>))
    /\ UNCHANGED <<books, nextId, reviews, nextRid, request, response>>

\* GET: serialize the instance held
Retrieve(w) ==
    /\ inflight[w].pc = "found"
    /\ inflight[w].req.method = "GET"
    /\ Step(w, "done", inflight[w].instance, HTTP_200_OK,
            Body("entity", BookSerializer_data(inflight[w].req.pk, inflight[w].instance)))
    /\ UNCHANGED <<books, nextId, reviews, nextRid, request, response>>

\* PUT: is_valid(), then serializer.save() -> instance.save()
Put(w) ==
    /\ inflight[w].pc = "found"
    /\ inflight[w].req.method = "PUT"
    /\ IF BookSerializer_is_valid(inflight[w].req.data, FALSE)
       THEN LET row == BookSerializer_update(inflight[w].instance,
                           BookSerializer_validated_data(inflight[w].req.data))
            IN  /\ books' = Model_save(books, inflight[w].req.pk, row)
                /\ Step(w, "done", row, HTTP_200_OK,
                        Body("entity", BookSerializer_data(inflight[w].req.pk, row)))
       ELSE /\ books' = books
            /\ Step(w, "done", inflight[w].instance, HTTP_400_BAD_REQUEST,
                    Body("errors", BookSerializer_errors(inflight[w].req.data, FALSE)))
    /\ UNCHANGED <<nextId, reviews, nextRid, request, response>>

\* DELETE: book.delete(), cascading
Delete(w) ==
    /\ inflight[w].pc = "found"
    /\ inflight[w].req.method = "DELETE"
    /\ books' = Book_delete(books, inflight[w].req.pk)
    /\ reviews' = Review_cascade(reviews, inflight[w].req.pk)
    /\ Step(w, "done", inflight[w].instance, HTTP_204_NO_CONTENT, EmptyBody)
    /\ UNCHANGED <<nextId, nextRid, request, response>>

\* the response is sent; the worker is free again
Finish(w) ==
    /\ inflight[w].pc = "done"
    /\ inflight' = [inflight EXCEPT ![w] = IdleWorker]
    /\ UNCHANGED <<books, nextId, reviews, nextRid, request, response>>

ConcNext ==
    \E w \in Workers :
        \/ Accept_pk(w)
        \/ Get(w)
        \/ Retrieve(w)
        \/ Put(w)
        \/ Delete(w)
        \/ Finish(w)

SpecConc == ConcInit /\ [][ConcNext]_vars

(***************************************************************************)
(* Vocabulary of the properties.                                           *)
(***************************************************************************)
\* urlpatterns: the view a request is routed to
Handler(req) ==
    CASE req.view = "Pure_Json" -> Pure_Json(req)
      [] req.view = "Pure_Json_Model" -> Pure_Json_Model(req)
      [] req.view = "fbv_list" -> fbv_list(req)
      [] req.view = "fbv_pk" -> fbv_pk(req)
      [] req.view = "cbv_list" -> cbv_list(req)
      [] req.view = "cbv_pk" -> cbv_pk(req)
      [] req.view = "mixins_list" -> mixins_list(req)
      [] req.view = "mixins_pk" -> mixins_pk(req)
      [] req.view = "generics_list" -> generics_list(req)
      [] req.view = "generics_pk" -> generics_pk(req)
      [] req.view = "viewsetsBook" -> viewsetsBook(req)

Styles == {"fbv", "cbv", "mixins", "generics", "viewset"}

ListViewOf(s) ==
    CASE s = "fbv" -> "fbv_list" [] s = "cbv" -> "cbv_list" [] s = "mixins" -> "mixins_list"
      [] s = "generics" -> "generics_list" [] s = "viewset" -> "viewsetsBook"

PkViewOf(s) ==
    CASE s = "fbv" -> "fbv_pk" [] s = "cbv" -> "cbv_pk" [] s = "mixins" -> "mixins_pk"
      [] s = "generics" -> "generics_pk" [] s = "viewset" -> "viewsetsBook"

StyleOf(view) == CHOOSE s \in Styles : view \in {ListViewOf(s), PkViewOf(s)}

\* the same request addressed to another style's endpoint
Restyled(req, s) ==
    Req(IF req.pk = 0 THEN ListViewOf(s) ELSE PkViewOf(s), req.method, req.pk, req.data)

BookViews == ListViews \cup PkViews

IsList(req) == req.view \in ListViews /\ req.method = "GET" /\ req.pk = 0
IsCreate(req) == req.view \in ListViews /\ req.method = "POST"
IsRetrieve(req) == req.view \in PkViews /\ req.method = "GET" /\ req.pk # 0
IsUpdate(req) == req.view \in PkViews /\ req.method = "PUT"
IsDelete(req) == req.view \in PkViews /\ req.method = "DELETE"

\* this step is a view returning its response to the pending request
Ran == response.status = 0 /\ response'.status # 0

StoreSame == books' = books /\ nextId' = nextId /\ reviews' = reviews /\ nextRid' = nextRid

\* every row of the old table but k is in the new table, unchanged
OthersKept(old, new, k) ==
    /\ (DOMAIN old) \ {k} = (DOMAIN new) \ {k}
    /\ \A j \in (DOMAIN old) \ {k} : new[j] = old[j]

(***************************************************************************)
(* C1.  A Create whose body fails validation is answered 400 with the      *)
(* field errors (failing field -> message), and nothing is stored: the     *)
(* tables after the request are the tables before it.  Every list view.    *)
(***************************************************************************)
\* C1: an invalid Create gets 400 with the field errors and stores nothing
C1_InvalidCreateRejected ==
    [][(Ran /\ IsCreate(request) /\ ~BookSerializer_is_valid(request.data, FALSE))
         => /\ response'.status = HTTP_400_BAD_REQUEST
            /\ response'.body.kind = "errors"
            /\ DOMAIN response'.body.content
                 = DOMAIN BookSerializer_errors(request.data, FALSE)
            /\ StoreSame]_vars

(***************************************************************************)
(* C2.  A Create with a valid body is answered 201 with a fresh id, adds   *)
(* exactly that one book, and a Retrieve of the returned id that follows   *)
(* at once is answered 200 with title, author and published_date           *)
(* identical to the body submitted.                                        *)
(***************************************************************************)
\* the Retrieve a client sends next, to the item view of the same style
RetrieveOf(req, id) == Handler(Req(PkViewOf(StyleOf(req.view)), "GET", id, <<>>))

Created(id) ==
    /\ response'.status = HTTP_201_CREATED
    /\ response'.body.kind = "entity"
    /\ id \notin DOMAIN books
    /\ DOMAIN books' = (DOMAIN books) \cup {id}
    /\ OthersKept(books, books', id)
    /\ reviews' = reviews
    /\ (RetrieveOf(request, id).status)' = HTTP_200_OK
    /\ (RetrieveOf(request, id).body.kind)' = "entity"
    /\ (RetrieveOf(request, id).body.content.id)' = id

\* C2 as stated: the Retrieve returns the fields exactly as submitted
C2_CreateThenRetrieveIdentical ==
    [][(Ran /\ IsCreate(request) /\ BookSerializer_is_valid(request.data, FALSE))
         => \E id \in 1..nextId :
               /\ id = response'.body.content.id
               /\ Created(id)
               /\ LET got == (RetrieveOf(request, id).body.content)'
                  IN  /\ got.title = request.data.title
                      /\ got.author = request.data.author
                      /\ got.published_date = request.data.published_date]_vars

\* C2 as amended: the Retrieve returns the body as validated: text fields without
\* their surrounding blanks, the date in the canonical zero-padded form.
C2_CreateThenRetrieveNormalised ==
    [][(Ran /\ IsCreate(request) /\ BookSerializer_is_valid(request.data, FALSE))
         => \E id \in 1..nextId :
               /\ id = response'.body.content.id
               /\ Created(id)
               /\ LET got == (RetrieveOf(request, id).body.content)'
                  IN  /\ got.title = strip(request.data.title)
                      /\ got.author = strip(request.data.author)
                      /\ got.published_date
                           = isoformat(parse_date(request.data.published_date))
                      /\ parse_date(got.published_date)
                           = parse_date(request.data.published_date)
                      /\ got = response'.body.content]_vars

\* a valid body that is not in canonical form was created beside another book
C2_Witness ==
    /\ Answered
    /\ IsCreate(request)
    /\ response.status = HTTP_201_CREATED
    /\ request.data = P_loose
    /\ Cardinality(DOMAIN books) = 2

(***************************************************************************)
(* C3.  Retrieve, Update and Delete of an id that is not stored are        *)
(* answered 404 with no entity in the body and leave books and reviews as  *)
(* they were; an Update of such an id creates no book.                     *)
(***************************************************************************)
\* C3: a missing id gets 404, no entity, and the store is untouched
C3_MissingIdIs404 ==
    [][(Ran /\ (IsRetrieve(request) \/ IsUpdate(request) \/ IsDelete(request))
            /\ request.pk \notin DOMAIN books)
         => /\ response'.status = HTTP_404_NOT_FOUND
            /\ response'.body.kind \in {"empty", "detail"}
            /\ response'.body.content = <<>>
            /\ request.pk \notin DOMAIN books'
            /\ StoreSame]_vars

\* an Update with a valid body met an id deleted earlier, among stored books and reviews
C3_Witness ==
    /\ Answered
    /\ IsUpdate(request)
    /\ BookSerializer_is_valid(request.data, FALSE)
    /\ response.status = HTTP_404_NOT_FOUND
    /\ request.pk < nextId
    /\ books # <<>>
    /\ reviews # <<>>

(***************************************************************************)
(* C4.  Every stored review refers to a stored book, whatever requests     *)
(* ran.  A Delete of a stored book B is answered 204 and removes B and     *)
(* exactly the reviews that refer to B; the other books and the reviews of *)
(* other books stay as they were.                                          *)
(***************************************************************************)
\* C4: references always resolve; a Delete removes the book and exactly its reviews
C4_DeleteCascades ==
    [][/\ \A r \in DOMAIN reviews' : reviews'[r].book \in DOMAIN books'
       /\ (Ran /\ IsDelete(request) /\ request.pk \in DOMAIN books)
            => /\ response'.status = HTTP_204_NO_CONTENT
               /\ response'.body = EmptyBody
               /\ request.pk \notin DOMAIN books'
               /\ OthersKept(books, books', request.pk)
               /\ nextId' = nextId
               /\ DOMAIN reviews' = {r \in DOMAIN reviews : reviews[r].book # request.pk}
               /\ \A r \in DOMAIN reviews' : reviews'[r] = reviews[r]]_vars

\* a Delete was answered 204 after which one review is gone and another is still stored
C4_Witness ==
    /\ Answered
    /\ IsDelete(request)
    /\ response.status = HTTP_204_NO_CONTENT
    /\ books # <<>>
    /\ Cardinality(DOMAIN reviews) = 1
    /\ nextRid = 3

(***************************************************************************)
(* C5.  An Update of a stored book is all or nothing.  A body that fails   *)
(* validation (a missing required field included) is answered 400 with     *)
(* the field errors and the book stays as it was; a valid body is answered *)
(* 200 and the book keeps its id while title, author and published_date    *)
(* all equal the values submitted.  No other book and no review changes.   *)
(***************************************************************************)
UpdateFrame ==
    /\ request.pk \in DOMAIN books'
    /\ OthersKept(books, books', request.pk)
    /\ nextId' = nextId
    /\ reviews' = reviews
    /\ nextRid' = nextRid

UpdateRefused ==
    /\ response'.status = HTTP_400_BAD_REQUEST
    /\ response'.body.kind = "errors"
    /\ DOMAIN response'.body.content # {}
    /\ DOMAIN response'.body.content \subseteq BookFields
    /\ \A f \in BookFields \ DOMAIN request.data : f \in DOMAIN response'.body.content
    /\ books'[request.pk] = books[request.pk]

\* C5 as stated: a valid Update stores the fields exactly as submitted
C5_UpdateStoresSubmitted ==
    [][(Ran /\ IsUpdate(request) /\ request.pk \in DOMAIN books)
         => /\ UpdateFrame
            /\ IF ~BookSerializer_is_valid(request.data, FALSE) THEN UpdateRefused
               ELSE /\ response'.status = HTTP_200_OK
                    /\ response'.body.content.id = request.pk
                    /\ books'[request.pk].title = request.data.title
                    /\ books'[request.pk].author = request.data.author
                    /\ books'[request.pk].published_date
                         = parse_date(request.data.published_date)]_vars

\* C5 as amended: the text fields are stored as validated, that is without the
\* blanks that surround them in the body.
C5_UpdateStoresValidated ==
    [][(Ran /\ IsUpdate(request) /\ request.pk \in DOMAIN books)
         => /\ UpdateFrame
            /\ IF ~BookSerializer_is_valid(request.data, FALSE) THEN UpdateRefused
               ELSE /\ response'.status = HTTP_200_OK
                    /\ response'.body.content.id = request.pk
                    /\ books'[request.pk].title = strip(request.data.title)
                    /\ books'[request.pk].author = strip(request.data.author)
                    /\ books'[request.pk].published_date
                         = parse_date(request.data.published_date)]_vars

\* a valid Update replaced a stored book, beside another book and a review
C5_Witness ==
    /\ Answered
    /\ IsUpdate(request)
    /\ response.status = HTTP_200_OK
    /\ request.data = P_loose
    /\ Cardinality(DOMAIN books) = 2
    /\ reviews # <<>>

(***************************************************************************)
(* C6.  Creating a review with a rating outside 1..5 is answered 400 with  *)
(* an error on rating and stores nothing; with a rating inside 1..5, a     *)
(* stored book and well-formed reviewer and text it is answered 201 and    *)
(* stores the review.  No stored review has a rating below 1 or above 5.   *)
(***************************************************************************)
NonBlank(t) == strip(t) # <<>>

C8_StylesAgree ==
    [][(Ran /\ request.view \in BookViews /\ request.method # "PATCH")
         => \A s \in Styles :
               /\ Handler(Restyled(request, s)).status = response'.status
               /\ Handler(Restyled(request, s)).body.kind = response'.body.kind
               /\ Handler(Restyled(request, s)).body.content = response'.body.content
               /\ Handler(Restyled(request, s)).books = books'
               /\ Handler(Restyled(request, s)).nextId = nextId'
               /\ Handler(Restyled(request, s)).reviews = reviews']_vars

(***************************************************************************)
(* C9.  With an Update and a Delete of one id running concurrently, a book *)
(* whose Delete was answered 204 stays absent: the Update's save does not  *)
(* bring the id back.                                                      *)
(***************************************************************************)
\* C9: after a Delete's 204 its id is not stored
C9_DeletedStaysAbsent ==
    \A w \in Workers :
        (/\ inflight[w].pc = "done"
         /\ inflight[w].req.method = "DELETE"
         /\ inflight[w].status = HTTP_204_NO_CONTENT)
        => inflight[w].req.pk \notin DOMAIN books

(***************************************************************************)
(* C10.  No routed request creates a review or changes one: the stored     *)
(* reviews only shrink, and only by the cascade of a book Delete.  The     *)
(* review listing and the static demo are answered 200 and leave the store *)
(* as it was; the demo returns its two fixed records whatever is stored.   *)
(***************************************************************************)
\* C10: routed requests only ever remove reviews, by cascade; the demo is fixed
C10_RoutesNeverWriteReviews ==
    [][~Pending("review_create")
         => /\ DOMAIN reviews' \subseteq DOMAIN reviews
            /\ \A k \in DOMAIN reviews' : reviews'[k] = reviews[k]
            /\ nextRid' = nextRid
            /\ (DOMAIN reviews' # DOMAIN reviews)
                 => /\ Ran
                    /\ IsDelete(request)
                    /\ response'.status = HTTP_204_NO_CONTENT
                    /\ \A k \in (DOMAIN reviews) \ DOMAIN reviews' :
                          reviews[k].book = request.pk
            /\ (Ran /\ request.view = "Pure_Json_Model")
                 => /\ response'.status = HTTP_200_OK
                    /\ Len(response'.body.content) = Cardinality(DOMAIN reviews)
                    /\ StoreSame
            /\ (Ran /\ request.view = "Pure_Json")
                 => /\ response'.status = HTTP_200_OK
                    /\ Len(response'.body.content) = 2
                    /\ response'.body.content[1].id = 1
                    /\ response'.body.content[1].title = "To Kill a Mockingbird"
                    /\ response'.body.content[2].id = 2
                    /\ response'.body.content[2].title = "1984"
                    /\ StoreSame]_vars

\* the demo answered while a book is stored and a review has been cascaded away
C10_Witness ==
    /\ Answered
    /\ request.view = "Pure_Json"
    /\ books # <<>>
    /\ nextRid > 1
    /\ reviews = <<>>

====
